---- MODULE Spec2Model ----
(***************************************************************************)
(* Finite Automaton Builder: the classifier, simulator, subset-construction *)
(* converter and validator of src/unnamed/part_000 (automatonUtils), the    *)
(* form of src/src/components/AutomatonForm.tsx and the storage it saves to *)
(* (src/unnamed/part_001).                                                 *)
(*                                                                         *)
(* Strings are sequences of UTF-16 code units, so that join(','),           *)
(* split(','), the `${from}-${symbol}` key, trim() and the default sort()   *)
(* are modelled by what they do to the characters.  Arrays and JS Sets are  *)
(* sequences (a Set is a duplicate-free sequence in insertion order).       *)
(* Arrays owned by an automaton object live in a heap and the object holds  *)
(* their addresses, so that a shallow copy shares them.                     *)
(***************************************************************************)
EXTENDS Integers, Sequences, FiniteSets, TLC

VARIABLES
    heap,     \* address -> array; the arrays of the automaton objects
    fa,       \* the automaton object handed to the operations (array fields are addresses)
    given,    \* the value of fa when it was handed over
    input,    \* the input string of simulate
    pc,       \* which operation ran last
    kind,     \* getAutomatonType(fa) once classify ran
    sim,      \* SimulationResult of simulateAutomaton(fa, input)
    out,      \* the automaton object returned by convertNFAToDFA(fa)
    simOut,   \* SimulationResult of simulateAutomaton(out, input)
    arg,      \* the partial automaton handed to validateAutomaton
    errors,   \* the messages validateAutomaton returned
    again,    \* the automaton object returned by convertNFAToDFA(out)
    simAgain, \* SimulationResult of simulateAutomaton(again, input)
    twin,     \* given with the marker of one epsilon transition replaced by the other
    kindTwin, \* getAutomatonType(twin)
    simTwin,  \* SimulationResult of simulateAutomaton(twin, input)
    outTwin,  \* the automaton convertNFAToDFA(twin) returns
    form,     \* the state of AutomatonForm: formData and the pending newTransition
    storage,  \* the array of automata under the storage key
    subset,   \* the locals of the work-list loop run one label at a time
    closures  \* a set of states and what the two getEpsilonClosure return for it

vars == <<heap, fa, given, input, pc, kind, sim, out, simOut, arg, errors,
          again, simAgain, twin, kindTwin, simTwin, outTwin, form, storage, subset,
          closures>>

againVars == <<again, simAgain>>
twinVars  == <<twin, kindTwin, simTwin, outTwin>>
formVars  == <<form, storage>>

----------------------------------------------------------------------------
(* Characters and strings *)

CharSpace  == 32
CharComma  == 44
CharHyphen == 45
CharEps    == 949

EPSILON == <<CharEps>>     \* 'ε'
EMPTY   == <<>>            \* ''

IsEpsilonSymbol(s) == s = EPSILON \/ s = EMPTY

Range(seq) == {seq[i] : i \in 1..Len(seq)}

Includes(arr, x) == \E i \in 1..Len(arr) : arr[i] = x

\* a < b in the order of Array.prototype.sort() without comparator:
\* lexicographic on UTF-16 code units, a proper prefix first
RECURSIVE StrLess(_, _)
StrLess(a, b) ==
    IF b = <<>> THEN FALSE
    ELSE IF a = <<>> THEN TRUE
    ELSE IF Head(a) # Head(b) THEN Head(a) < Head(b)
    ELSE StrLess(Tail(a), Tail(b))

RECURSIVE InsertSorted(_, _)
InsertSorted(x, arr) ==
    IF arr = <<>> THEN <<x>>
    ELSE IF StrLess(x, Head(arr)) THEN <<x>> \o arr
    ELSE <<Head(arr)>> \o InsertSorted(x, Tail(arr))

RECURSIVE SortStrings(_)
SortStrings(arr) ==
    IF arr = <<>> THEN <<>>
    ELSE InsertSorted(Head(arr), SortStrings(Tail(arr)))

\* arr.join(',')
RECURSIVE JoinComma(_)
JoinComma(arr) ==
    IF arr = <<>> THEN <<>>
    ELSE IF Len(arr) = 1 THEN arr[1]
    ELSE arr[1] \o <<CharComma>> \o JoinComma(Tail(arr))

\* str.split(','): the pieces between commas; ''.split(',') is ['']
RECURSIVE SplitFrom(_, _)
SplitFrom(str, piece) ==
    IF str = <<>> THEN <<piece>>
    ELSE IF Head(str) = CharComma THEN <<piece>> \o SplitFrom(Tail(str), <<>>)
    ELSE SplitFrom(Tail(str), Append(piece, Head(str)))

SplitComma(str) == SplitFrom(str, <<>>)

\* str.trim() for the blank character of the model
RECURSIVE TrimLeft(_)
TrimLeft(str) ==
    IF str # <<>> /\ Head(str) = CharSpace THEN TrimLeft(Tail(str)) ELSE str

RECURSIVE TrimRight(_)
TrimRight(str) ==
    IF str # <<>> /\ str[Len(str)] = CharSpace
    THEN TrimRight(SubSeq(str, 1, Len(str) - 1)) ELSE str

Trim(str) == TrimRight(TrimLeft(str))

\* new Set(arr) / set.add(x): insertion order, no duplicates
SetAdd(set, x) == IF Includes(set, x) THEN set ELSE Append(set, x)

RECURSIVE SetAddAll(_, _)
SetAddAll(set, arr) ==
    IF arr = <<>> THEN set ELSE SetAddAll(SetAdd(set, Head(arr)), Tail(arr))

NewSet(arr) == SetAddAll(<<>>, arr)

\* arr.filter(p) for p given as the set of values that pass
RECURSIVE FilterIn(_, _)
FilterIn(arr, keep) ==
    IF arr = <<>> THEN <<>>
    ELSE IF Head(arr) \in keep THEN <<Head(arr)>> \o FilterIn(Tail(arr), keep)
    ELSE FilterIn(Tail(arr), keep)

----------------------------------------------------------------------------
(* Classifier *)

TransitionKey(t) == t.from \o <<CharHyphen>> \o t.symbol     \* `${from}-${symbol}`

\* the Map<string, Set<string>> built by the loop of isDFA
RECURSIVE TransitionMap(_, _)
TransitionMap(transitions, map) ==
    IF transitions = <<>> THEN map
    ELSE LET t    == Head(transitions)
             key  == TransitionKey(t)
             m1   == IF key \in DOMAIN map THEN map ELSE (key :> {}) @@ map
             m2   == [m1 EXCEPT ![key] = @ \cup {t.to}]
         IN  TransitionMap(Tail(transitions), m2)

EmptyMap == [k \in {} |-> {}]

\* a slip: the test for epsilon transitions is left out
isDFA_NoEpsilonTest(a) ==
    LET transitionMap == TransitionMap(a.transitions, EmptyMap)
    IN  ~ \E key \in DOMAIN transitionMap : Cardinality(transitionMap[key]) > 1

isDFA(a) ==
    IF \E i \in 1..Len(a.transitions) : IsEpsilonSymbol(a.transitions[i].symbol)
    THEN FALSE
    ELSE LET transitionMap == TransitionMap(a.transitions, EmptyMap)
         IN  ~ \E key \in DOMAIN transitionMap : Cardinality(transitionMap[key]) > 1

getAutomatonType(a) == IF isDFA(a) THEN "DFA" ELSE "NFA"

----------------------------------------------------------------------------
(* Simulator *)

\* transitions.find(t => t.from === state && t.symbol === symbol): index or 0
RECURSIVE FindTransition(_, _, _, _)
FindTransition(transitions, state, symbol, i) ==
    IF i > Len(transitions) THEN 0
    ELSE IF transitions[i].from = state /\ transitions[i].symbol = symbol THEN i
    ELSE FindTransition(transitions, state, symbol, i + 1)

\* a slip in the final test: the state is looked up in the wrong list
DFAResult_AnyState(a, currentState, path) ==
    [accepted |-> Includes(a.states, currentState), path |-> path]

\* the return after the loop of simulateDFA
DFAResult(a, currentState, path) ==
    [accepted |-> Includes(a.acceptStates, currentState), path |-> path]

RECURSIVE simulateDFAFrom(_, _, _, _, _)
simulateDFAFrom(a, str, i, currentState, path) ==
    IF i > Len(str)
    THEN DFAResult(a, currentState, path)
    ELSE LET symbol == <<str[i]>>
         IN  IF ~ Includes(a.alphabet, symbol)
             THEN [accepted |-> FALSE, path |-> path]
             ELSE LET k == FindTransition(a.transitions, currentState, symbol, 1)
                  IN  IF k = 0
                      THEN [accepted |-> FALSE, path |-> path]
                      ELSE simulateDFAFrom(a, str, i + 1, a.transitions[k].to,
                                           Append(path, a.transitions[k].to))

\* a slip in the set-up: the path starts empty instead of with the start state
simulateDFA_EmptyPath(a, str) == simulateDFAFrom(a, str, 1, a.startState, <<>>)

simulateDFA(a, str) == simulateDFAFrom(a, str, 1, a.startState, <<a.startState>>)

\* the destinations of transitions.filter(t => t.from === state && t.symbol in symbols),
\* in array order
RECURSIVE Destinations(_, _, _)
Destinations(transitions, state, symbols) ==
    IF transitions = <<>> THEN <<>>
    ELSE LET t == Head(transitions)
             rest == Destinations(Tail(transitions), state, symbols)
         IN  IF t.from = state /\ t.symbol \in symbols THEN <<t.to>> \o rest ELSE rest

\* getEpsilonClosure of simulateNFA: one `for (const state of closure)` pass visits
\* the members in insertion order, those added during the pass included
RECURSIVE SimClosurePass(_, _, _, _)
SimClosurePass(transitions, closure, i, changed) ==
    IF i > Len(closure) THEN [closure |-> closure, changed |-> changed]
    ELSE LET dests == Destinations(transitions, closure[i], {EPSILON, EMPTY})
             next  == SetAddAll(closure, dests)
         IN  SimClosurePass(transitions, next, i + 1, changed \/ next # closure)

RECURSIVE SimClosureLoop(_, _)
SimClosureLoop(transitions, closure) ==
    LET r == SimClosurePass(transitions, closure, 1, FALSE)
    IN  IF r.changed THEN SimClosureLoop(transitions, r.closure) ELSE r.closure

\* how many times the body of `while (changed)` runs before the loop is left
RECURSIVE SimClosurePasses(_, _)
SimClosurePasses(transitions, closure) ==
    LET r == SimClosurePass(transitions, closure, 1, FALSE)
    IN  IF r.changed THEN 1 + SimClosurePasses(transitions, r.closure) ELSE 1

\* a slip: the set is returned without following the epsilon transitions
simGetEpsilonClosure_NoFixpoint(a, states) == NewSet(states)

simGetEpsilonClosure(a, states) == SimClosureLoop(a.transitions, NewSet(states))

\* nextStates of one step: for each current state, the destinations on the symbol
RECURSIVE NextStates(_, _, _, _)
NextStates(transitions, states, symbol, acc) ==
    IF states = <<>> THEN acc
    ELSE NextStates(transitions, Tail(states), symbol,
                    SetAddAll(acc, Destinations(transitions, Head(states), {symbol})))

RECURSIVE simulateNFAFrom(_, _, _, _, _)
simulateNFAFrom(a, str, i, currentStates, path) ==
    IF i > Len(str)
    THEN [accepted |-> \E k \in 1..Len(currentStates) :
                           Includes(a.acceptStates, currentStates[k]),
          path |-> path, currentStates |-> currentStates]
    ELSE LET symbol == <<str[i]>>
         IN  IF ~ Includes(a.alphabet, symbol)
             THEN [accepted |-> FALSE, path |-> path, currentStates |-> currentStates]
             ELSE LET nextStates == NextStates(a.transitions, currentStates, symbol, <<>>)
                      closure    == simGetEpsilonClosure(a, nextStates)
                      path1      == Append(path, JoinComma(closure))
                  IN  IF Len(closure) = 0
                      THEN [accepted |-> FALSE, path |-> path1, currentStates |-> closure]
                      ELSE simulateNFAFrom(a, str, i + 1, closure, path1)

simulateNFA(a, str) ==
    LET currentStates == simGetEpsilonClosure(a, <<a.startState>>)
    IN  simulateNFAFrom(a, str, 1, currentStates, <<JoinComma(currentStates)>>)

\* a slip in the dispatch: every automaton is run by simulateDFA
simulateAutomaton_AlwaysDFA(a, str) == simulateDFA(a, str)

simulateAutomaton(a, str) == IF isDFA(a) THEN simulateDFA(a, str) ELSE simulateNFA(a, str)

----------------------------------------------------------------------------
(* Subset-construction converter *)

SuffixAlreadyDFA == <<32, 40, 65, 108, 114, 101, 97, 100, 121, 32, 68, 70, 65, 41>>
SuffixConverted  == <<32, 40, 67, 111, 110, 118, 101, 114, 116, 101, 100, 32,
                      116, 111, 32, 68, 70, 65, 41>>
SuffixDfaId      == <<95, 100, 102, 97>>

\* getEpsilonClosure of convertNFAToDFA (a second copy of the simulator's)
RECURSIVE ConvClosurePass(_, _, _, _)
ConvClosurePass(transitions, closure, i, changed) ==
    IF i > Len(closure) THEN [closure |-> closure, changed |-> changed]
    ELSE LET dests == Destinations(transitions, closure[i], {EPSILON, EMPTY})
             next  == SetAddAll(closure, dests)
         IN  ConvClosurePass(transitions, next, i + 1, changed \/ next # closure)

RECURSIVE ConvClosureLoop(_, _)
ConvClosureLoop(transitions, closure) ==
    LET r == ConvClosurePass(transitions, closure, 1, FALSE)
    IN  IF r.changed THEN ConvClosureLoop(transitions, r.closure) ELSE r.closure

\* a slip: only the transitions marked 'ε' are followed, those marked '' are not
convGetEpsilonClosure_MarkerOnly(nfa, states) ==
    ConvClosureLoop(SelectSeq(nfa.transitions, LAMBDA t : t.symbol # EMPTY), NewSet(states))

convGetEpsilonClosure(nfa, states) == ConvClosureLoop(nfa.transitions, NewSet(states))

\* Array.from(set).sort().join(',')
CanonicalLabel(set) == JoinComma(SortStrings(set))

\* a slip: the start label is not put on the work-list
SubsetStart_NoWork(nfa) ==
    LET closure           == convGetEpsilonClosure(nfa, <<nfa.startState>>)
        startStateClosure == CanonicalLabel(closure)
    IN  [dfaStates       |-> <<startStateClosure>>,
         dfaTransitions  |-> <<>>,
         workList        |-> <<>>,
         dfaAcceptStates |-> IF \E k \in 1..Len(closure) :
                                    Includes(nfa.acceptStates, closure[k])
                             THEN <<startStateClosure>> ELSE <<>>]

\* the state of the work-list loop before any label is expanded
SubsetStart(nfa) ==
    LET closure           == convGetEpsilonClosure(nfa, <<nfa.startState>>)
        startStateClosure == CanonicalLabel(closure)
    IN  [dfaStates       |-> <<startStateClosure>>,
         dfaTransitions  |-> <<>>,
         workList        |-> <<startStateClosure>>,
         dfaAcceptStates |-> IF \E k \in 1..Len(closure) :
                                    Includes(nfa.acceptStates, closure[k])
                             THEN <<startStateClosure>> ELSE <<>>]

\* a slip: a newly discovered label is put on the work-list twice
ExpandSymbol_PushTwice(nfa, currentDfaState, currentNfaStates, symbol, st) ==
    IF IsEpsilonSymbol(symbol) THEN st
    ELSE LET nextStates == NextStates(nfa.transitions, currentNfaStates, symbol, <<>>)
         IN  IF Len(nextStates) = 0 THEN st
             ELSE LET closure      == convGetEpsilonClosure(nfa, nextStates)
                      nextDfaState == CanonicalLabel(closure)
                      st1 == [st EXCEPT !.dfaTransitions =
                                 Append(@, [from |-> currentDfaState,
                                            to |-> nextDfaState, symbol |-> symbol])]
                  IN  IF Includes(st.dfaStates, nextDfaState) THEN st1
                      ELSE [st1 EXCEPT
                              !.dfaStates = Append(@, nextDfaState),
                              !.workList  = Append(Append(@, nextDfaState), nextDfaState),
                              !.dfaAcceptStates =
                                  IF \E k \in 1..Len(closure) :
                                         Includes(nfa.acceptStates, closure[k])
                                  THEN SetAdd(@, nextDfaState) ELSE @]

\* the body of `for (const symbol of nfa.alphabet)` for one symbol
ExpandSymbol(nfa, currentDfaState, currentNfaStates, symbol, st) ==
    IF IsEpsilonSymbol(symbol) THEN st
    ELSE LET nextStates == NextStates(nfa.transitions, currentNfaStates, symbol, <<>>)
         IN  IF Len(nextStates) = 0 THEN st
             ELSE LET closure      == convGetEpsilonClosure(nfa, nextStates)
                      nextDfaState == CanonicalLabel(closure)
                      st1 == [st EXCEPT !.dfaTransitions =
                                 Append(@, [from |-> currentDfaState,
                                            to |-> nextDfaState, symbol |-> symbol])]
                  IN  IF Includes(st.dfaStates, nextDfaState) THEN st1
                      ELSE [st1 EXCEPT
                              !.dfaStates = Append(@, nextDfaState),
                              !.workList  = Append(@, nextDfaState),
                              !.dfaAcceptStates =
                                  IF \E k \in 1..Len(closure) :
                                         Includes(nfa.acceptStates, closure[k])
                                  THEN SetAdd(@, nextDfaState) ELSE @]

RECURSIVE ExpandSymbols(_, _, _, _, _)
ExpandSymbols(nfa, currentDfaState, currentNfaStates, k, st) ==
    IF k > Len(nfa.alphabet) THEN st
    ELSE ExpandSymbols(nfa, currentDfaState, currentNfaStates, k + 1,
             ExpandSymbol(nfa, currentDfaState, currentNfaStates, nfa.alphabet[k], st))

\* one turn of `while (workList.length > 0)`: pop the last label and expand it
ExpandLabel(nfa, st) ==
    LET currentDfaState  == st.workList[Len(st.workList)]
        currentNfaStates == SplitComma(currentDfaState)
        popped == [st EXCEPT !.workList = SubSeq(@, 1, Len(@) - 1)]
    IN  ExpandSymbols(nfa, currentDfaState, currentNfaStates, 1, popped)

\* the same turn with the label at index i taken from the work-list (pop takes
\* the last, shift the first)
ExpandAt(nfa, st, i) ==
    LET currentDfaState  == st.workList[i]
        currentNfaStates == SplitComma(currentDfaState)
        taken == [st EXCEPT !.workList = SubSeq(@, 1, i - 1) \o SubSeq(@, i + 1, Len(@))]
    IN  ExpandSymbols(nfa, currentDfaState, currentNfaStates, 1, taken)

RECURSIVE SubsetLoop(_, _)
SubsetLoop(nfa, st) ==
    IF Len(st.workList) = 0 THEN st ELSE SubsetLoop(nfa, ExpandLabel(nfa, st))

NonEpsilon(alphabet) == FilterIn(alphabet, Range(alphabet) \ {EPSILON, EMPTY})

\* a slip: the already-deterministic branch hands back the name as it was
convertNFAToDFA_NoSuffix(nfa) ==
    IF isDFA(nfa)
    THEN nfa
    ELSE LET st == SubsetLoop(nfa, SubsetStart(nfa))
         IN  [id           |-> nfa.id \o SuffixDfaId,
              name         |-> nfa.name \o SuffixConverted,
              states       |-> st.dfaStates,
              alphabet     |-> NonEpsilon(nfa.alphabet),
              startState   |-> CanonicalLabel(convGetEpsilonClosure(nfa, <<nfa.startState>>)),
              acceptStates |-> st.dfaAcceptStates,
              transitions  |-> st.dfaTransitions]

\* the automaton value convertNFAToDFA returns (createdAt, a clock reading, is left out)
convertNFAToDFA(nfa) ==
    IF isDFA(nfa)
    THEN [nfa EXCEPT !.name = nfa.name \o SuffixAlreadyDFA]
    ELSE LET st == SubsetLoop(nfa, SubsetStart(nfa))
         IN  [id           |-> nfa.id \o SuffixDfaId,
              name         |-> nfa.name \o SuffixConverted,
              states       |-> st.dfaStates,
              alphabet     |-> NonEpsilon(nfa.alphabet),
              startState   |-> CanonicalLabel(convGetEpsilonClosure(nfa, <<nfa.startState>>)),
              acceptStates |-> st.dfaAcceptStates,
              transitions  |-> st.dfaTransitions]

----------------------------------------------------------------------------
(* Validator *)

Has(a, field) == field \in DOMAIN a     \* the field of the Partial<> is present

\* a slip: the destination of a transition is not looked at
InvalidTransition_NoTo(a, t) ==
    \/ Has(a, "states") /\ ~ Includes(a.states, t.from)
    \/ Has(a, "alphabet") /\ ~ Includes(a.alphabet, t.symbol) /\ t.symbol # EPSILON
                          /\ t.symbol # EMPTY

InvalidTransition(a, t) ==
    \/ Has(a, "states") /\ (~ Includes(a.states, t.from) \/ ~ Includes(a.states, t.to))
    \/ Has(a, "alphabet") /\ ~ Includes(a.alphabet, t.symbol) /\ t.symbol # EPSILON
                          /\ t.symbol # EMPTY

\* the messages pushed by each `if` of validateAutomaton, in the order of the code
NameErrors(a) ==
    IF ~ Has(a, "name") \/ Trim(a.name) = <<>> THEN <<"Name is required">> ELSE <<>>

StatesErrors(a) ==
    IF ~ Has(a, "states") \/ Len(a.states) = 0
    THEN <<"At least one state is required">> ELSE <<>>

AlphabetErrors(a) ==
    IF ~ Has(a, "alphabet") \/ Len(a.alphabet) = 0
    THEN <<"At least one symbol in alphabet is required">> ELSE <<>>

StartStateErrors(a) ==
    IF ~ Has(a, "startState") \/ a.startState = <<>>
    THEN <<"Start state is required">>
    ELSE IF Has(a, "states") /\ ~ Includes(a.states, a.startState)
    THEN <<"Start state must be in the list of states">>
    ELSE <<>>

AcceptStatesErrors(a) ==
    IF Has(a, "acceptStates")
       /\ \E i \in 1..Len(a.acceptStates) :
              Has(a, "states") /\ ~ Includes(a.states, a.acceptStates[i])
    THEN <<"All accept states must be in the list of states">> ELSE <<>>

TransitionsErrors(a) ==
    IF Has(a, "transitions")
       /\ \E i \in 1..Len(a.transitions) : InvalidTransition(a, a.transitions[i])
    THEN <<"All transitions must use valid states and symbols">> ELSE <<>>

\* a fail-fast validator: the first check that fails ends the validation
validateAutomaton_FailFast(a) ==
    IF NameErrors(a) # <<>> THEN NameErrors(a)
    ELSE IF StatesErrors(a) # <<>> THEN StatesErrors(a)
    ELSE IF AlphabetErrors(a) # <<>> THEN AlphabetErrors(a)
    ELSE IF StartStateErrors(a) # <<>> THEN StartStateErrors(a)
    ELSE IF AcceptStatesErrors(a) # <<>> THEN AcceptStatesErrors(a)
    ELSE TransitionsErrors(a)

validateAutomaton(a) ==
    NameErrors(a) \o StatesErrors(a) \o AlphabetErrors(a) \o StartStateErrors(a)
        \o AcceptStatesErrors(a) \o TransitionsErrors(a)

----------------------------------------------------------------------------
(* Objects: an automaton object holds the addresses of its four arrays *)

ArrayFields == {"states", "alphabet", "acceptStates", "transitions"}

\* the automaton value an object denotes in a heap
ValueIn(h, obj) ==
    [id           |-> obj.id,
     name         |-> obj.name,
     states       |-> h[obj.states],
     alphabet     |-> h[obj.alphabet],
     startState   |-> obj.startState,
     acceptStates |-> h[obj.acceptStates],
     transitions  |-> h[obj.transitions]]

Value(obj) == ValueIn(heap, obj)

\* the addresses an object refers to
Addresses(obj) == {obj[f] : f \in ArrayFields}

\* an object literal whose arrays are freshly allocated after the heap h
NewObject(h, v) ==
    [id           |-> v.id,
     name         |-> v.name,
     states       |-> Len(h) + 1,
     alphabet     |-> Len(h) + 2,
     startState   |-> v.startState,
     acceptStates |-> Len(h) + 3,
     transitions  |-> Len(h) + 4]

Allocate(h, v) == h \o <<v.states, v.alphabet, v.acceptStates, v.transitions>>

\* what `return convertNFAToDFA(nfa)` hands back: the spread `{ ...nfa, name }`
\* copies the fields of nfa, so the arrays are the ones nfa holds; the other
\* branch builds its arrays with Array.from, filter and a fresh literal
ConvertedObject(h, nfa) ==
    LET v == convertNFAToDFA(ValueIn(h, nfa))
    IN  IF isDFA(ValueIn(h, nfa))
        THEN [nfa EXCEPT !.name = v.name]
        ELSE NewObject(h, v)

\* a slip: the alphabet of the argument is filtered in place
ConvertedHeap_InPlace(h, nfa) ==
    IF isDFA(ValueIn(h, nfa)) THEN h
    ELSE [Allocate(h, convertNFAToDFA(ValueIn(h, nfa))) EXCEPT ![nfa.alphabet] = NonEpsilon(@)]

ConvertedHeap(h, nfa) ==
    IF isDFA(ValueIn(h, nfa)) THEN h ELSE Allocate(h, convertNFAToDFA(ValueIn(h, nfa)))

----------------------------------------------------------------------------
(* Inputs *)

MaxTransitions == 2     \* transitions of an automaton
MaxInputLen    == 2     \* characters of an input string
MaxAbsent      == 2     \* fields left out of a partial automaton

StateA  == <<97>>             \* 'a'
StateB  == <<98>>             \* 'b'
StateAB == <<97, 44, 98>>     \* 'a,b'
SymX    == <<120>>            \* 'x'
SymY    == <<121>>            \* 'y'
NameN   == <<110>>            \* 'n'
IdF     == <<102>>            \* 'f'

\* sequences without repetition of at most n members of S
DistinctSeqs(S, n) ==
    {q \in UNION {[1..k -> S] : k \in 0..n} : \A i, j \in 1..Len(q) : i # j => q[i] # q[j]}

\* the sub-arrays of arr (members kept in order)
SubArrays(arr) == {FilterIn(arr, keep) : keep \in SUBSET Range(arr)}

Strings(chars, n) == UNION {[1..k -> chars] : k \in 0..n}

Triples(states, symbols) ==
    {[from |-> f, to |-> t, symbol |-> y] : f \in states, t \in states, y \in symbols}

\* The automata the form can save: state names and symbols are trimmed, non-empty
\* and pairwise different (addState, addSymbol), a transition is a new triple of
\* two listed states and a listed symbol or 'ε' (addTransition and its selects),
\* and handleSubmit saves only what validateAutomaton passes.
StoredStateLists == {<<StateA>>, <<StateA, StateB>>, <<StateAB>>}
StoredAlphabets  == {<<SymX>>, <<SymX, SymY>>, <<SymX, EPSILON>>}
InputChars       == {120, 121, CharEps}

Automaton(nm, sts, alph, st, acc, tr) ==
    [id |-> IdF, name |-> nm, states |-> sts, alphabet |-> alph, startState |-> st,
     acceptStates |-> acc, transitions |-> tr]

InputStrings == Strings(InputChars, MaxInputLen)

\* Saved automata whose names hold the '-' of the classifier's key: the form
\* takes any trimmed text as a state name or a symbol.
StateAHy == <<97, 45>>        \* 'a-'
SymB     == <<98>>            \* 'b'
SymHyB   == <<45, 98>>        \* '-b'

\* Saved automata for the converter: a state name may hold the ',' of the labels.
ConvertStateLists == StoredStateLists \cup {<<StateA, StateAB>>}

\* Automata whose epsilon transitions carry either marker: '' is not offered by
\* the form's selects, it comes with an automaton read back from storage.
MarkerStateLists == {<<StateA>>, <<StateA, StateB>>}

\* Saved automata handed to each of the four operations in turn
PureStateLists == {<<StateA, StateB>>}
PureAlphabets  == {<<SymX, EPSILON>>}

\* The automaton of the conversion scenario: states s0, s1, s2 over {a, b}
MaxScenarioLen == 6     \* characters of an input string of the scenario

StateS0   == <<115, 48>>                      \* 's0'
StateS1   == <<115, 49>>                      \* 's1'
StateS2   == <<115, 50>>                      \* 's2'
StateS0S1 == <<115, 48, 44, 115, 49>>         \* 's0,s1'
SymA      == <<97>>                           \* 'a'

ScenarioNFA ==
    Automaton(NameN, <<StateS0, StateS1, StateS2>>, <<SymA, SymB>>, StateS0, <<StateS2>>,
              <<[from |-> StateS0, to |-> StateS0, symbol |-> SymA],
                [from |-> StateS0, to |-> StateS1, symbol |-> SymA],
                [from |-> StateS1, to |-> StateS2, symbol |-> SymB]>>)

ScenarioInputStrings == Strings({97, 98}, MaxScenarioLen)

\* Saved automata for the order of the work-list: four states, one of them
\* named 'a,b', and any of these transitions
StateC == <<99>>              \* 'c'

OrderStates == <<StateC, StateA, StateB, StateAB>>

OrderTransitions ==
    <<[from |-> StateC, to |-> StateA,  symbol |-> SymX],
      [from |-> StateC, to |-> StateB,  symbol |-> SymY],
      [from |-> StateA, to |-> StateAB, symbol |-> SymX],
      [from |-> StateB, to |-> StateA,  symbol |-> SymX],
      [from |-> StateB, to |-> StateB,  symbol |-> SymX],
      [from |-> StateC, to |-> StateA,  symbol |-> EPSILON]>>

\* Automata for the closures: up to three states, epsilon transitions under
\* either marker
ClosureStateLists == {<<StateA, StateB>>, <<StateA, StateB, StateC>>}

KeyStateLists == {<<StateA, StateAHy>>}
KeyAlphabets  == {<<SymB, SymHyB>>}
KeyInputStrings == Strings({98, CharHyphen}, MaxInputLen)

\* The automata handed to validateAutomaton: any combination of field values,
\* valid or not, a superset of what the form's edits reach ('' is the unset
\* start state; '' as a transition symbol is the second epsilon marker the
\* validator names; state names are non-empty, as addState keeps them).
FormNames      == {<<>>, <<CharSpace>>, NameN}
FormStateLists == {<<>>, <<StateA>>, <<StateA, StateB>>}
FormAlphabets  == {<<>>, <<SymX>>}
FormStarts     == {<<>>, StateA, StateB}
FormAccepts    == {<<>>, <<StateA>>, <<StateB>>, <<StateA, StateB>>}
FormTransitions ==
    {<<>>} \cup {<<t>> : t \in Triples({StateA, StateB}, {SymX, SymY, EPSILON, EMPTY})}

AutomatonFields ==
    {"id", "name", "states", "alphabet", "startState", "acceptStates", "transitions"}

\* a Partial<FiniteAutomaton>: the fields of v without the absent ones
Partial(v, absent) == [f \in AutomatonFields \ absent |-> v[f]]

AbsentSets == {ab \in SUBSET (AutomatonFields \ {"id"}) : Cardinality(ab) <= MaxAbsent}

----------------------------------------------------------------------------
(* AutomatonForm and the storage it saves to *)

MaxStored == 1     \* automata the form saves before the session ends

\* what is typed into the name, state and symbol inputs
TypedNames   == {<<CharSpace>>, NameN}
TypedStates  == {StateA, <<CharSpace, 97, CharSpace>>, <<CharSpace>>}
TypedSymbols == {SymX, <<120, CharSpace>>}

NoFields == [k \in {} |-> <<>>]     \* the object literal {}

\* { ...p, [key]: value }
WithField(p, key, value) == [k \in DOMAIN p \cup {key} |-> IF k = key THEN value ELSE p[k]]

\* the useState initial values without initialData
EmptyForm ==
    [name |-> <<>>, states |-> <<>>, alphabet |-> <<>>, startState |-> <<>>,
     acceptStates |-> <<>>, transitions |-> <<>>, newTransition |-> NoFields]

addState(f, newState) ==
    IF Trim(newState) # <<>> /\ ~ Includes(f.states, Trim(newState))
    THEN [f EXCEPT !.states = Append(@, Trim(newState))]
    ELSE f

removeState(f, state) ==
    [f EXCEPT !.states = SelectSeq(@, LAMBDA s : s # state),
              !.startState = IF @ = state THEN <<>> ELSE @,
              !.acceptStates = SelectSeq(@, LAMBDA s : s # state),
              !.transitions = SelectSeq(@, LAMBDA t : t.from # state /\ t.to # state)]

addSymbol(f, newSymbol) ==
    IF Trim(newSymbol) # <<>> /\ ~ Includes(f.alphabet, Trim(newSymbol))
    THEN [f EXCEPT !.alphabet = Append(@, Trim(newSymbol))]
    ELSE f

removeSymbol(f, symbol) ==
    [f EXCEPT !.alphabet = SelectSeq(@, LAMBDA s : s # symbol),
              !.transitions = SelectSeq(@, LAMBDA t : t.symbol # symbol)]

toggleAcceptState(f, state) ==
    IF Includes(f.acceptStates, state)
    THEN [f EXCEPT !.acceptStates = SelectSeq(@, LAMBDA s : s # state)]
    ELSE [f EXCEPT !.acceptStates = Append(@, state)]

\* a slip: the triple is appended without looking for it in the list
addTransition_NoExistsCheck(f) ==
    LET nt == f.newTransition
    IN  IF /\ "from" \in DOMAIN nt /\ nt.from # <<>>
           /\ "to" \in DOMAIN nt /\ nt.to # <<>>
           /\ "symbol" \in DOMAIN nt
        THEN [f EXCEPT !.transitions = Append(@, [from |-> nt.from, to |-> nt.to,
                                                  symbol |-> nt.symbol]),
                       !.newTransition = NoFields]
        ELSE f

addTransition(f) ==
    LET nt == f.newTransition
    IN  IF /\ "from" \in DOMAIN nt /\ nt.from # <<>>
           /\ "to" \in DOMAIN nt /\ nt.to # <<>>
           /\ "symbol" \in DOMAIN nt
        THEN LET transition == [from |-> nt.from, to |-> nt.to, symbol |-> nt.symbol]
             IN  IF ~ Includes(f.transitions, transition)
                 THEN [f EXCEPT !.transitions = Append(@, transition),
                                !.newTransition = NoFields]
                 ELSE f
        ELSE f

\* transitions.filter((_, i) => i !== index), index counted from 1 here
removeTransition(f, index) ==
    [f EXCEPT !.transitions = SubSeq(@, 1, index - 1) \o SubSeq(@, index + 1, Len(@))]

\* `fa_${Date.now()}`: the clock has moved on since the last automaton was saved
NewId(stored) == <<102, 97, 95, 48 + Len(stored)>>

\* stored.findIndex(existing => existing.id === fa.id), 0 for -1
RECURSIVE FindIndex(_, _, _)
FindIndex(stored, id, i) ==
    IF i > Len(stored) THEN 0
    ELSE IF stored[i].id = id THEN i ELSE FindIndex(stored, id, i + 1)

saveAutomaton(stored, a) ==
    LET index == FindIndex(stored, a.id, 1)
    IN  IF index > 0 THEN [stored EXCEPT ![index] = a] ELSE Append(stored, a)

\* a slip: the automaton is saved whatever validateAutomaton returned
handleSubmit_SaveAnyway(f, stored) ==
    LET a == [Automaton(f.name, f.states, f.alphabet, f.startState, f.acceptStates,
                        f.transitions) EXCEPT !.id = NewId(stored)]
    IN  [errors  |-> validateAutomaton(a),
         storage |-> saveAutomaton(stored, a),
         form    |-> [EmptyForm EXCEPT !.newTransition = f.newTransition]]

\* handleSubmit of a form opened without initialData: the form state, the
\* stored array and the messages of validateAutomaton after the handler
handleSubmit(f, stored) ==
    LET a == [Automaton(f.name, f.states, f.alphabet, f.startState, f.acceptStates,
                        f.transitions) EXCEPT !.id = NewId(stored)]
        errs == validateAutomaton(a)
    IN  IF Len(errs) > 0
        THEN [errors |-> errs, storage |-> stored, form |-> f]
        ELSE [errors  |-> errs,
              storage |-> saveAutomaton(stored, a),
              form    |-> [EmptyForm EXCEPT !.newTransition = f.newTransition]]

----------------------------------------------------------------------------
(* State machine *)

NoResult == [none |-> TRUE]

\* the automaton v is handed over: its arrays are the first four of the heap
InitAutomaton(v) ==
    /\ given = v
    /\ heap = <<v.states, v.alphabet, v.acceptStates, v.transitions>>
    /\ fa = NewObject(<<>>, v)
    /\ input = <<>>
    /\ pc = "idle"
    /\ kind = "none"
    /\ sim = NoResult
    /\ out = NoResult
    /\ simOut = NoResult
    /\ arg = NoResult
    /\ errors = <<>>

\* nothing converted twice, no twin, no form open, no loop under way
NoAgain  == again = NoResult /\ simAgain = NoResult
NoTwin   == twin = NoResult /\ kindTwin = "none" /\ simTwin = NoResult /\ outTwin = NoResult
NoForm   == form = NoResult /\ storage = <<>>
NoSubset == subset = NoResult /\ closures = NoResult

\* a saved automaton over one of the state lists and one of the alphabets
InitSaved(stateLists, alphabets) ==
    \E sts \in stateLists, alph \in alphabets :
        \E st \in Range(sts), acc \in SubArrays(sts),
           tr \in DistinctSeqs(Triples(Range(sts), Range(alph) \cup {EPSILON}),
                               MaxTransitions) :
            InitAutomaton(Automaton(NameN, sts, alph, st, acc, tr))

Init == InitSaved(StoredStateLists, StoredAlphabets) /\ NoAgain /\ NoTwin /\ NoForm /\ NoSubset

InitKeys == InitSaved(KeyStateLists, KeyAlphabets) /\ NoAgain /\ NoTwin /\ NoForm /\ NoSubset

\* v with the marker of the epsilon transition i replaced by the other marker
SwapMarker(v, i) ==
    [v EXCEPT !.transitions[i].symbol = IF @ = EPSILON THEN EMPTY ELSE EPSILON]

\* an automaton with an epsilon transition under either marker, and its twin
InitMarkers ==
    /\ \E sts \in MarkerStateLists, alph \in StoredAlphabets :
          \E st \in Range(sts), acc \in SubArrays(sts),
             tr \in DistinctSeqs(Triples(Range(sts), Range(alph) \cup {EPSILON, EMPTY}),
                                 MaxTransitions) :
              \E i \in 1..Len(tr) :
                  /\ IsEpsilonSymbol(tr[i].symbol)
                  /\ InitAutomaton(Automaton(NameN, sts, alph, st, acc, tr))
                  /\ twin = SwapMarker(Automaton(NameN, sts, alph, st, acc, tr), i)
    /\ kindTwin = "none" /\ simTwin = NoResult /\ outTwin = NoResult
    /\ NoAgain /\ NoForm /\ NoSubset

InitForm ==
    \E nm \in FormNames, sts \in FormStateLists, alph \in FormAlphabets,
       st \in FormStarts, acc \in FormAccepts, tr \in FormTransitions :
        InitAutomaton(Automaton(nm, sts, alph, st, acc, tr))
           /\ NoAgain /\ NoTwin /\ NoForm /\ NoSubset

\* getAutomatonType(fa)
Classify ==
    /\ pc = "idle"
    /\ kind' = getAutomatonType(Value(fa))
    /\ pc' = "classified"
    /\ UNCHANGED <<heap, fa, given, input, sim, out, simOut, arg, errors>>
    /\ UNCHANGED <<againVars, twinVars, formVars, subset>>
    /\ UNCHANGED closures

\* simulateAutomaton(fa, str)
Simulate ==
    /\ pc = "idle"
    /\ \E str \in InputStrings :
          /\ input' = str
          /\ sim' = simulateAutomaton(Value(fa), str)
    /\ pc' = "simulated"
    /\ UNCHANGED <<heap, fa, given, kind, out, simOut, arg, errors>>
    /\ UNCHANGED <<againVars, twinVars, formVars, subset>>
    /\ UNCHANGED closures

\* out = convertNFAToDFA(fa)
Convert ==
    /\ pc = "idle"
    /\ out' = ConvertedObject(heap, fa)
    /\ heap' = ConvertedHeap(heap, fa)
    /\ pc' = "converted"
    /\ UNCHANGED <<fa, given, input, kind, sim, simOut, arg, errors>>
    /\ UNCHANGED <<againVars, twinVars, formVars, subset>>
    /\ UNCHANGED closures

\* simulateAutomaton(fa, str) and simulateAutomaton(out, str) on the same input
SimulateBoth ==
    /\ pc = "converted"
    /\ \E str \in InputStrings :
          /\ input' = str
          /\ sim' = simulateAutomaton(Value(fa), str)
          /\ simOut' = simulateAutomaton(Value(out), str)
    /\ pc' = "simulatedBoth"
    /\ UNCHANGED <<heap, fa, given, kind, out, arg, errors>>
    /\ UNCHANGED <<againVars, twinVars, formVars, subset>>
    /\ UNCHANGED closures

\* getAutomatonType(fa), simulateDFA(fa, str) and simulateNFA(fa, str) on the
\* same automaton and the same input
SimulateEachWay ==
    /\ pc = "idle"
    /\ kind' = getAutomatonType(Value(fa))
    /\ \E str \in InputStrings :
          /\ input' = str
          /\ sim' = simulateDFA(Value(fa), str)
          /\ simOut' = simulateNFA(Value(fa), str)
    /\ pc' = "simulatedEachWay"
    /\ UNCHANGED <<heap, fa, given, out, arg, errors>>
    /\ UNCHANGED <<againVars, twinVars, formVars, subset>>
    /\ UNCHANGED closures

\* errors = validateAutomaton(arg) for a partial view of fa
Validate ==
    /\ pc = "idle"
    /\ \E absent \in AbsentSets :
          /\ arg' = Partial(Value(fa), absent)
          /\ errors' = validateAutomaton(Partial(Value(fa), absent))
    /\ pc' = "validated"
    /\ UNCHANGED <<heap, fa, given, input, kind, sim, out, simOut>>
    /\ UNCHANGED <<againVars, twinVars, formVars, subset>>
    /\ UNCHANGED closures

\* again = convertNFAToDFA(out)
ConvertAgain ==
    /\ pc = "converted"
    /\ again' = ConvertedObject(heap, out)
    /\ heap' = ConvertedHeap(heap, out)
    /\ pc' = "convertedAgain"
    /\ UNCHANGED <<fa, given, input, kind, sim, out, simOut, arg, errors, simAgain>>
    /\ UNCHANGED <<twinVars, formVars, subset>>
    /\ UNCHANGED closures

\* simulateAutomaton(out, str) and simulateAutomaton(again, str) on the same input
SimulateAgain ==
    /\ pc = "convertedAgain"
    /\ \E str \in KeyInputStrings :
          /\ input' = str
          /\ simOut' = simulateAutomaton(Value(out), str)
          /\ simAgain' = simulateAutomaton(Value(again), str)
    /\ pc' = "simulatedAgain"
    /\ UNCHANGED <<heap, fa, given, kind, sim, out, arg, errors, again>>
    /\ UNCHANGED <<twinVars, formVars, subset>>
    /\ UNCHANGED closures

\* getAutomatonType of the automaton and of its twin
ClassifyTwins ==
    /\ pc = "idle"
    /\ kind' = getAutomatonType(Value(fa))
    /\ kindTwin' = getAutomatonType(twin)
    /\ pc' = "classified"
    /\ UNCHANGED <<heap, fa, given, input, sim, out, simOut, arg, errors>>
    /\ UNCHANGED <<againVars, twin, simTwin, outTwin, formVars, subset>>
    /\ UNCHANGED closures

\* simulateAutomaton of the automaton and of its twin on the same input
SimulateTwins ==
    /\ pc = "idle"
    /\ \E str \in InputStrings :
          /\ input' = str
          /\ sim' = simulateAutomaton(Value(fa), str)
          /\ simTwin' = simulateAutomaton(twin, str)
    /\ pc' = "simulated"
    /\ UNCHANGED <<heap, fa, given, kind, out, simOut, arg, errors>>
    /\ UNCHANGED <<againVars, twin, kindTwin, outTwin, formVars, subset>>
    /\ UNCHANGED closures

\* convertNFAToDFA of the automaton and of its twin
ConvertTwins ==
    /\ pc = "idle"
    /\ out' = ConvertedObject(heap, fa)
    /\ heap' = ConvertedHeap(heap, fa)
    /\ outTwin' = convertNFAToDFA(twin)
    /\ pc' = "converted"
    /\ UNCHANGED <<fa, given, input, kind, sim, simOut, arg, errors>>
    /\ UNCHANGED <<againVars, twin, kindTwin, simTwin, formVars, subset>>
    /\ UNCHANGED closures

\* the form is opened to create an automaton, nothing is stored yet
InitEditor ==
    /\ form = EmptyForm
    /\ storage = <<>>
    /\ errors = <<>>
    /\ pc = "editing"
    /\ heap = <<>> /\ fa = NoResult /\ given = NoResult /\ input = <<>> /\ kind = "none"
    /\ sim = NoResult /\ out = NoResult /\ simOut = NoResult /\ arg = NoResult
    /\ NoAgain /\ NoTwin /\ NoSubset

\* what every input handler leaves alone
EditFrame ==
    /\ pc' = "editing"
    /\ errors' = <<>>
    /\ UNCHANGED <<heap, fa, given, input, kind, sim, out, simOut, arg, storage>>
    /\ UNCHANGED <<againVars, twinVars, subset>>
    /\ UNCHANGED closures

SetName ==
    /\ \E text \in TypedNames : form' = [form EXCEPT !.name = text]
    /\ EditFrame

AddState ==
    /\ \E text \in TypedStates : form' = addState(form, text)
    /\ EditFrame

RemoveState ==
    /\ \E state \in Range(form.states) : form' = removeState(form, state)
    /\ EditFrame

AddSymbol ==
    /\ \E text \in TypedSymbols : form' = addSymbol(form, text)
    /\ EditFrame

RemoveSymbol ==
    /\ \E symbol \in Range(form.alphabet) : form' = removeSymbol(form, symbol)
    /\ EditFrame

SetStartState ==
    /\ \E state \in Range(form.states) : form' = [form EXCEPT !.startState = state]
    /\ EditFrame

ToggleAcceptState ==
    /\ \E state \in Range(form.states) : form' = toggleAcceptState(form, state)
    /\ EditFrame

\* the three selects of the transition row
SelectFrom ==
    /\ \E state \in Range(form.states) :
          form' = [form EXCEPT !.newTransition = WithField(@, "from", state)]
    /\ EditFrame

SelectSymbol ==
    /\ \E symbol \in Range(form.alphabet) \cup {EPSILON} :
          form' = [form EXCEPT !.newTransition = WithField(@, "symbol", symbol)]
    /\ EditFrame

SelectTo ==
    /\ \E state \in Range(form.states) :
          form' = [form EXCEPT !.newTransition = WithField(@, "to", state)]
    /\ EditFrame

AddTransition ==
    /\ form' = addTransition(form)
    /\ EditFrame

RemoveTransition ==
    /\ \E index \in 1..Len(form.transitions) : form' = removeTransition(form, index)
    /\ EditFrame

HandleSubmit ==
    /\ Len(storage) < MaxStored
    /\ form' = handleSubmit(form, storage).form
    /\ storage' = handleSubmit(form, storage).storage
    /\ errors' = handleSubmit(form, storage).errors
    /\ pc' = IF Len(handleSubmit(form, storage).errors) > 0 THEN "rejected" ELSE "saved"
    /\ UNCHANGED <<heap, fa, given, input, kind, sim, out, simOut, arg>>
    /\ UNCHANGED <<againVars, twinVars, subset>>
    /\ UNCHANGED closures

\* simulateAutomaton(fa, str) and simulateAutomaton(out, str) on an input over {a, b}
SimulateScenario ==
    /\ pc = "converted"
    /\ \E str \in ScenarioInputStrings :
          /\ input' = str
          /\ sim' = simulateAutomaton(Value(fa), str)
          /\ simOut' = simulateAutomaton(Value(out), str)
    /\ pc' = "simulatedBoth"
    /\ UNCHANGED <<heap, fa, given, kind, out, arg, errors>>
    /\ UNCHANGED <<againVars, twinVars, formVars, subset>>
    /\ UNCHANGED closures

\* convertNFAToDFA(fa) up to the loop (lines 142-151)
StartLoop ==
    /\ pc = "idle"
    /\ ~ isDFA(Value(fa))
    /\ subset' = SubsetStart(Value(fa))
    /\ pc' = "looping"
    /\ UNCHANGED <<heap, fa, given, input, kind, sim, out, simOut, arg, errors>>
    /\ UNCHANGED <<againVars, twinVars, formVars>>
    /\ UNCHANGED closures

\* one turn of the loop with any label of the work-list taken next
ExpandAny ==
    /\ pc = "looping"
    /\ \E i \in 1..Len(subset.workList) : subset' = ExpandAt(Value(fa), subset, i)
    /\ UNCHANGED <<heap, fa, given, input, pc, kind, sim, out, simOut, arg, errors>>
    /\ UNCHANGED <<againVars, twinVars, formVars>>
    /\ UNCHANGED closures

\* the work-list is empty; out = convertNFAToDFA(fa) as the code runs it
FinishLoop ==
    /\ pc = "looping"
    /\ Len(subset.workList) = 0
    /\ out' = ConvertedObject(heap, fa)
    /\ heap' = ConvertedHeap(heap, fa)
    /\ pc' = "converted"
    /\ UNCHANGED <<fa, given, input, kind, sim, simOut, arg, errors>>
    /\ UNCHANGED <<againVars, twinVars, formVars, subset>>
    /\ UNCHANGED closures

\* one turn of the loop as the code runs it: workList.pop() takes the last label
ExpandLast ==
    /\ pc = "looping"
    /\ Len(subset.workList) > 0
    /\ subset' = ExpandLabel(Value(fa), subset)
    /\ UNCHANGED <<heap, fa, given, input, pc, kind, sim, out, simOut, arg, errors>>
    /\ UNCHANGED <<againVars, twinVars, formVars>>
    /\ UNCHANGED closures

\* an automaton with its first state as start state and no accept state
InitClosure ==
    /\ \E sts \in ClosureStateLists :
          \E tr \in DistinctSeqs(Triples(Range(sts), {SymX, EPSILON, EMPTY}), MaxTransitions) :
              InitAutomaton(Automaton(NameN, sts, <<SymX>>, sts[1], <<>>, tr))
    /\ NoAgain /\ NoTwin /\ NoForm /\ NoSubset

\* getEpsilonClosure(new Set(states)) of simulateNFA and of convertNFAToDFA, each
\* also called on its own result
Close ==
    /\ pc = "idle"
    /\ \E states \in DistinctSeqs(Range(Value(fa).states), Len(Value(fa).states)) :
          closures' =
              [states    |-> states,
               sim       |-> simGetEpsilonClosure(Value(fa), states),
               conv      |-> convGetEpsilonClosure(Value(fa), states),
               simTwice  |-> simGetEpsilonClosure(Value(fa),
                                                  simGetEpsilonClosure(Value(fa), states)),
               convTwice |-> convGetEpsilonClosure(Value(fa),
                                                   convGetEpsilonClosure(Value(fa), states))]
    /\ pc' = "closed"
    /\ UNCHANGED <<heap, fa, given, input, kind, sim, out, simOut, arg, errors>>
    /\ UNCHANGED <<againVars, twinVars, formVars, subset>>

Next == Classify \/ Simulate

Spec == Init /\ [][Next]_vars

InitConvert ==
    InitSaved(ConvertStateLists, StoredAlphabets) /\ NoAgain /\ NoTwin /\ NoForm /\ NoSubset

NextConvert == Convert \/ SimulateBoth

SpecConvert == InitConvert /\ [][NextConvert]_vars

SpecKeys == InitKeys /\ [][Next]_vars

\* conversion of a conversion, over names that hold the '-' of the classifier's key
NextAgain == Convert \/ ConvertAgain \/ SimulateAgain

SpecAgain == InitKeys /\ [][NextAgain]_vars

NextMarkers == ClassifyTwins \/ SimulateTwins \/ ConvertTwins

SpecMarkers == InitMarkers /\ [][NextMarkers]_vars

\* each of the four operations on one saved automaton, and a simulation of the
\* automaton and of its conversion
InitPure == InitSaved(PureStateLists, PureAlphabets) /\ NoAgain /\ NoTwin /\ NoForm /\ NoSubset

NextPure == Classify \/ Simulate \/ Validate \/ Convert \/ SimulateBoth

SpecPure == InitPure /\ [][NextPure]_vars

NextEditor ==
    \/ SetName \/ AddState \/ RemoveState \/ AddSymbol \/ RemoveSymbol
    \/ SetStartState \/ ToggleAcceptState
    \/ SelectFrom \/ SelectSymbol \/ SelectTo \/ AddTransition \/ RemoveTransition
    \/ HandleSubmit

SpecEditor == InitEditor /\ [][NextEditor]_vars

InitScenario == InitAutomaton(ScenarioNFA) /\ NoAgain /\ NoTwin /\ NoForm /\ NoSubset

NextScenario == Classify \/ Convert \/ SimulateScenario

SpecScenario == InitScenario /\ [][NextScenario]_vars

InitOrder ==
    /\ \E st \in Range(OrderStates), acc \in SubArrays(OrderStates),
          tr \in SubArrays(OrderTransitions) :
          InitAutomaton(Automaton(NameN, OrderStates, <<SymX, SymY>>, st, acc, tr))
    /\ NoAgain /\ NoTwin /\ NoForm /\ NoSubset

NextOrder == StartLoop \/ ExpandAny \/ FinishLoop

SpecOrder == InitOrder /\ [][NextOrder]_vars

\* the work-list loop turn by turn
NextLoop == StartLoop \/ ExpandLast \/ FinishLoop

SpecLoop == InitConvert /\ [][NextLoop]_vars

NextClosure == Close

SpecClosure == InitClosure /\ [][NextClosure]_vars

\* both algorithms on every saved automaton and every input
NextDispatch == SimulateEachWay

SpecDispatch == Init /\ [][NextDispatch]_vars

NextValidate == Validate

SpecValidate == InitForm /\ [][NextValidate]_vars

----------------------------------------------------------------------------
(* Reference semantics of automata, on sets, used to state the properties *)

RefTransitions(a) == Range(a.transitions)
RefStates(a) == Range(a.states)

RefHasEpsilon(a) == \E t \in RefTransitions(a) : t.symbol \in {EPSILON, EMPTY}

\* some (state, symbol) with a non-epsilon symbol has two different destinations
RefHasChoice(a) ==
    \E t, u \in RefTransitions(a) :
        /\ t.from = u.from /\ t.symbol = u.symbol /\ t.to # u.to
        /\ t.symbol \notin {EPSILON, EMPTY}

\* T is closed under the epsilon transitions
RefEpsClosed(a, T) ==
    \A t \in RefTransitions(a) : (t.symbol \in {EPSILON, EMPTY} /\ t.from \in T) => t.to \in T

\* the smallest superset of S closed under the epsilon transitions
RefClosure(a, S) ==
    LET universe == RefStates(a) \cup S \cup {t.to : t \in RefTransitions(a)}
    IN  {q \in universe :
            \A T \in SUBSET universe : (S \subseteq T /\ RefEpsClosed(a, T)) => q \in T}

RefMove(a, S, c) == {t.to : t \in {u \in RefTransitions(a) : u.from \in S /\ u.symbol = <<c>>}}

\* the active set after the first k characters of str
RECURSIVE RefActive(_, _, _)
RefActive(a, str, k) ==
    IF k = 0 THEN RefClosure(a, {a.startState})
    ELSE RefClosure(a, RefMove(a, RefActive(a, str, k - 1), str[k]))

RefOverAlphabet(a, str) == \A k \in 1..Len(str) : <<str[k]>> \in Range(a.alphabet)

RefAcceptsNFA(a, str) ==
    /\ RefOverAlphabet(a, str)
    /\ \A k \in 0..Len(str) : RefActive(a, str, k) # {}
    /\ RefActive(a, str, Len(str)) \cap Range(a.acceptStates) # {}

\* the active set becomes empty at character i, and not before
RefEmptyAt(a, str, i) ==
    /\ \A k \in 1..i : <<str[k]>> \in Range(a.alphabet)
    /\ \A k \in 0..(i - 1) : RefActive(a, str, k) # {}
    /\ RefActive(a, str, i) = {}

\* a run of a deterministic automaton: r[1] is the start state and each step
\* follows a transition on a character of the alphabet
RefIsRun(a, str, r) ==
    /\ r[1] = a.startState
    /\ \A k \in 1..Len(str) :
          /\ <<str[k]>> \in Range(a.alphabet)
          /\ [from |-> r[k], to |-> r[k + 1], symbol |-> <<str[k]>>] \in RefTransitions(a)

RefAcceptsDFA(a, str) ==
    \E r \in [1..(Len(str) + 1) -> RefStates(a)] :
        RefIsRun(a, str, r) /\ r[Len(str) + 1] \in Range(a.acceptStates)

RefDelta(a, q, c) == RefMove(a, {q}, c)

\* the state a deterministic automaton is in after k characters, while it can step
RECURSIVE RefStateAfter(_, _, _)
RefStateAfter(a, str, k) ==
    IF k = 0 THEN a.startState
    ELSE CHOOSE q \in RefDelta(a, RefStateAfter(a, str, k - 1), str[k]) : TRUE

\* the first k characters can be consumed
RECURSIVE RefCanStep(_, _, _)
RefCanStep(a, str, k) ==
    \/ k = 0
    \/ /\ RefCanStep(a, str, k - 1)
       /\ <<str[k]>> \in Range(a.alphabet)
       /\ RefDelta(a, RefStateAfter(a, str, k - 1), str[k]) # {}

RECURSIVE SeqOfSet(_)
SeqOfSet(S) ==
    IF S = {} THEN <<>>
    ELSE LET x == CHOOSE y \in S : TRUE IN <<x>> \o SeqOfSet(S \ {x})

----------------------------------------------------------------------------
(* Properties *)

\* C1: for an automaton classified NFA and an input over its alphabet, the
\* automaton and its conversion agree on acceptance.
C1_ConversionPreservesAcceptance ==
    (pc = "simulatedBoth" /\ getAutomatonType(given) = "NFA" /\ RefOverAlphabet(given, input))
        => sim.accepted = simOut.accepted

\* C2: the classifier answers NFA exactly when some transition is an epsilon
\* transition or some (state, non-epsilon symbol) has two different destinations.
C2_ClassifyIffEpsilonOrChoice ==
    pc = "classified" => (kind = "NFA" <=> (RefHasEpsilon(given) \/ RefHasChoice(given)))

\* C3: on an automaton classified DFA, simulate accepts exactly when the input
\* has a run from the start state over alphabet characters that ends in an accept
\* state; the empty input gives the path [startState].
C3_DFAAcceptance ==
    (pc = "simulated" /\ isDFA(given)) =>
        /\ sim.accepted <=> RefAcceptsDFA(given, input)
        /\ input = <<>> =>
              /\ sim.path = <<given.startState>>
              /\ sim.accepted <=> given.startState \in Range(given.acceptStates)

C3_Witness ==
    /\ pc = "simulated" /\ isDFA(given) /\ Len(input) = MaxInputLen
    /\ sim.accepted /\ sim.path[1] # sim.path[2]

\* C4: on an automaton classified NFA, simulate accepts exactly when every
\* character is in the alphabet, the active set (epsilon-closure of the start
\* state, then epsilon-closure of the destinations on each character) is never
\* empty, and the last active set holds an accept state.
C4_NFAAcceptance ==
    (pc = "simulated" /\ ~ isDFA(given)) =>
        (sim.accepted <=> RefAcceptsNFA(given, input))

C4_Witness ==
    /\ pc = "simulated" /\ ~ isDFA(given) /\ Len(input) = MaxInputLen
    /\ sim.accepted
    /\ given.startState \notin Range(given.acceptStates)
    /\ RefHasEpsilon(given)

\* C5: when the active set becomes empty at character i, the NFA simulation
\* returns not accepted, no final states, and the path built before that
\* character: i labels, none of them the label of the empty set.
C5_EmptySetHaltsWithPathSoFar ==
    (pc = "simulated" /\ ~ isDFA(given)) =>
        \A i \in 1..Len(input) :
            RefEmptyAt(given, input, i) =>
                /\ ~ sim.accepted
                /\ sim.currentStates = <<>>
                /\ Len(sim.path) = i
                /\ \A k \in 1..Len(sim.path) : sim.path[k] # <<>>

\* C6: every entry of the path of the NFA simulation is the canonical label
\* (names sorted, joined with commas) of the active set at that step.
C6_PathEntriesAreCanonicalLabels ==
    (pc = "simulated" /\ ~ isDFA(given)) =>
        \A k \in 1..Len(sim.path) :
            sim.path[k] = CanonicalLabel(SeqOfSet(RefActive(given, input, k - 1)))

\* C7: on an automaton classified DFA, when character i is the first that is
\* outside the alphabet or has no transition, simulate returns not accepted with
\* the i states visited before it; otherwise the path has |input| + 1 entries;
\* in both cases the path is the start state followed by the states reached.
C7_DFAPath ==
    (pc = "simulated" /\ isDFA(given)) =>
        /\ \A i \in 1..Len(input) :
              (RefCanStep(given, input, i - 1) /\ ~ RefCanStep(given, input, i)) =>
                  /\ ~ sim.accepted
                  /\ Len(sim.path) = i
        /\ RefCanStep(given, input, Len(input)) => Len(sim.path) = Len(input) + 1
        /\ \A k \in 1..Len(sim.path) : sim.path[k] = RefStateAfter(given, input, k - 1)

C7_Witness ==
    /\ pc = "simulated" /\ isDFA(given) /\ Len(input) = MaxInputLen
    /\ RefCanStep(given, input, 1) /\ ~ RefCanStep(given, input, 2)
    /\ <<input[2]>> \in Range(given.alphabet)
    /\ Len(sim.path) = 2 /\ sim.path[1] # sim.path[2]

\* C8: for a fully populated automaton the validator returns no message exactly
\* when the name is not blank, states and alphabet are non-empty, the start state
\* is a state, the accept states are states, and every transition joins two
\* states on 'ε', '' or a symbol of the alphabet.
RefNonBlank(name) == \E k \in 1..Len(name) : name[k] # CharSpace

RefWellFormed(a) ==
    /\ RefNonBlank(a.name)
    /\ RefStates(a) # {}
    /\ Range(a.alphabet) # {}
    /\ a.startState \in RefStates(a)
    /\ Range(a.acceptStates) \subseteq RefStates(a)
    /\ \A t \in RefTransitions(a) :
          /\ t.from \in RefStates(a)
          /\ t.to \in RefStates(a)
          /\ t.symbol \in {EPSILON, EMPTY} \cup Range(a.alphabet)

C8_ValidIffInvariants ==
    (pc = "validated" /\ DOMAIN arg = AutomatonFields) =>
        (errors = <<>> <=> RefWellFormed(arg))

C8_Witness ==
    /\ pc = "validated" /\ DOMAIN arg = AutomatonFields
    /\ errors = <<>>
    /\ \E t \in RefTransitions(arg) : t.symbol = EMPTY /\ t.from # t.to

\* C9: the validator runs every check: the messages are exactly those of the
\* violated checks, one per check, in the order name, states, alphabet, start
\* state, accept states, transitions; two missing required fields give at least
\* two messages.
RefCheckOf(message) ==
    CASE message = "Name is required" -> 1
      [] message = "At least one state is required" -> 2
      [] message = "At least one symbol in alphabet is required" -> 3
      [] message = "Start state is required" -> 4
      [] message = "Start state must be in the list of states" -> 4
      [] message = "All accept states must be in the list of states" -> 5
      [] message = "All transitions must use valid states and symbols" -> 6

RefAbsentOrEmpty(a, field) == field \notin DOMAIN a \/ a[field] = <<>>

RefViolated(a, check) ==
    CASE check = 1 -> "name" \notin DOMAIN a \/ ~ RefNonBlank(a.name)
      [] check = 2 -> RefAbsentOrEmpty(a, "states")
      [] check = 3 -> RefAbsentOrEmpty(a, "alphabet")
      [] check = 4 -> \/ RefAbsentOrEmpty(a, "startState")
                      \/ "states" \in DOMAIN a /\ a.startState \notin Range(a.states)
      [] check = 5 -> /\ {"acceptStates", "states"} \subseteq DOMAIN a
                      /\ ~ (Range(a.acceptStates) \subseteq Range(a.states))
      [] check = 6 -> /\ "transitions" \in DOMAIN a
                      /\ \E t \in Range(a.transitions) :
                            \/ /\ "states" \in DOMAIN a
                               /\ ~ ({t.from, t.to} \subseteq Range(a.states))
                            \/ /\ "alphabet" \in DOMAIN a
                               /\ t.symbol \notin {EPSILON, EMPTY} \cup Range(a.alphabet)

RefRequiredMissing(a) ==
    {field \in {"name", "states", "alphabet", "startState"} : RefAbsentOrEmpty(a, field)}

C9_AllChecksRun ==
    pc = "validated" =>
        /\ \A check \in 1..6 :
              RefViolated(arg, check) <=>
                  \E k \in 1..Len(errors) : RefCheckOf(errors[k]) = check
        /\ \A i, j \in 1..Len(errors) :
              i < j => RefCheckOf(errors[i]) < RefCheckOf(errors[j])
        /\ Cardinality(RefRequiredMissing(arg)) >= 2 => Len(errors) >= 2

C9_Witness ==
    /\ pc = "validated"
    /\ {"name", "states"} \cap DOMAIN arg = {}
    /\ Len(errors) >= 3
    /\ errors[1] = "Name is required"
    /\ errors[Len(errors)] = "All transitions must use valid states and symbols"

\* C10: the automaton the converter returns shares none of its four arrays with
\* the automaton it was given.
C10_ResultSharesNoArray ==
    pc = "converted" => Addresses(out) \cap Addresses(fa) = {}

\* C11: for an input classified DFA, the conversion returns an automaton whose
\* name is the input's name followed by ' (Already DFA)' and whose states,
\* alphabet, start state, accept states and transitions are the input's; the
\* two accept the same inputs.
C11_AlreadyDFA ==
    (pc \in {"converted", "simulatedBoth"} /\ isDFA(given)) =>
        /\ out.name = given.name \o SuffixAlreadyDFA
        /\ Value(out).states = given.states
        /\ Value(out).alphabet = given.alphabet
        /\ Value(out).startState = given.startState
        /\ Value(out).acceptStates = given.acceptStates
        /\ Value(out).transitions = given.transitions
        /\ pc = "simulatedBoth" => sim.accepted = simOut.accepted

C11_Witness ==
    /\ pc = "simulatedBoth" /\ isDFA(given)
    /\ Len(given.transitions) = MaxTransitions /\ Len(input) = MaxInputLen
    /\ sim.accepted /\ simOut.accepted

\* C12: the conversion d of an automaton classified NFA is classified DFA, and
\* converting d again gives an automaton that accepts the same inputs as d.
C12_ConversionIsDFA ==
    (pc \in {"converted", "convertedAgain", "simulatedAgain"} /\ ~ isDFA(given)) =>
        /\ isDFA(Value(out))
        /\ pc = "simulatedAgain" => simOut.accepted = simAgain.accepted

\* C13: replacing the marker of an epsilon transition by the other marker
\* changes neither the classification, nor accepted, path and final states of
\* a simulation, nor the states, transitions, start state and accept states of
\* the conversion.
C13_MarkersInterchangeable ==
    /\ pc = "classified" => kind = kindTwin
    /\ pc = "simulated" => sim = simTwin
    /\ pc = "converted" =>
          /\ Value(out).states = outTwin.states
          /\ Value(out).transitions = outTwin.transitions
          /\ Value(out).startState = outTwin.startState
          /\ Value(out).acceptStates = outTwin.acceptStates

\* C14: the result of a simulation has the field currentStates (the final
\* states, possibly none) on every return of simulateNFA, the rejections for a
\* character outside the alphabet and for an empty set included, and on no
\* return of simulateDFA.
C14_FinalStatesOnNFAPathOnly ==
    pc = "simulated" => (("currentStates" \in DOMAIN sim) <=> ~ isDFA(given))

C14_Witness ==
    /\ pc = "simulated" /\ ~ isDFA(given) /\ Len(input) = MaxInputLen
    /\ "currentStates" \in DOMAIN sim /\ sim.currentStates = <<>>
    /\ Len(sim.path) = MaxInputLen + 1

\* C15: after getAutomatonType, simulateAutomaton, validateAutomaton or
\* convertNFAToDFA ran on an automaton, its name, states, alphabet, start state,
\* accept states and transitions are what they were before the call.
C15_InputNotMutated ==
    pc # "idle" =>
        /\ Value(fa).name = given.name
        /\ Value(fa).states = given.states
        /\ Value(fa).alphabet = given.alphabet
        /\ Value(fa).startState = given.startState
        /\ Value(fa).acceptStates = given.acceptStates
        /\ Value(fa).transitions = given.transitions

C15_Witness ==
    /\ pc = "converted" /\ ~ isDFA(given) /\ Len(heap) > 4
    /\ Value(out).alphabet # given.alphabet
    /\ Len(Value(out).transitions) > 0

\* C16: a submit of the form changes the stored automata only when
\* validateAutomaton returned no message for the automaton of the form (the
\* messages are the value of the call), and every automaton in storage passes
\* every check of the validator.
C16_SaveOnlyWhenValid ==
    [][storage' # storage =>
          /\ errors' = <<>>
          /\ \A k \in 1..Len(storage') : RefWellFormed(storage'[k])]_vars

C16_Witness ==
    /\ pc = "saved" /\ Len(storage) = 1 /\ form.states = <<>>
    /\ Len(storage[1].transitions) = 2
    /\ storage[1].acceptStates # <<>>

\* C17: the automaton of the scenario is classified NFA; its conversion is a
\* DFA with exactly three states, 's0', 's0,s1' and the state reached after
\* 'ab'; the input 'ab' is accepted by the automaton and by its conversion.
C17_ScenarioConversion ==
    /\ pc = "classified" => kind = "NFA"
    /\ pc \in {"converted", "simulatedBoth"} =>
          /\ isDFA(Value(out))
          /\ Len(Value(out).states) = 3
          /\ {StateS0, StateS0S1} \subseteq Range(Value(out).states)
    /\ (pc = "simulatedBoth" /\ input = <<97, 98>>) =>
          /\ sim.accepted /\ simOut.accepted
          /\ Range(Value(out).states) = {StateS0, StateS0S1, simOut.path[3]}

C17_Witness ==
    /\ pc = "simulatedBoth" /\ input = <<97, 98>>
    /\ simOut.accepted /\ Len(simOut.path) = 3
    /\ simOut.path[3] \notin {StateS0, StateS0S1}

\* the subset construction on sets of states
RefSymbols(a) == Range(a.alphabet) \ {EPSILON, EMPTY}

RefMoveOn(a, S, symbol) ==
    {t.to : t \in {u \in RefTransitions(a) : u.from \in S /\ u.symbol = symbol}}

RefStep(a, S, symbol) == RefClosure(a, RefMoveOn(a, S, symbol))

\* the sets reachable from those of R by the symbols with a non-empty move
RECURSIVE RefReachFrom(_, _)
RefReachFrom(a, R) ==
    LET more == R \cup ({RefStep(a, S, y) : S \in R, y \in RefSymbols(a)} \ {{}})
    IN  IF more = R THEN R ELSE RefReachFrom(a, more)

RefReachable(a) == RefReachFrom(a, {RefClosure(a, {a.startState})})

RefLabel(S) == CanonicalLabel(SeqOfSet(S))

\* C18: for an input classified NFA, the conversion has as start state the
\* canonical label of the epsilon-closure of {startState}; as states exactly the
\* labels of the sets reachable from it by non-epsilon alphabet symbols; as
\* transitions exactly one (label(S), a, label(closure(move(S, a)))) for each
\* reachable S and symbol a with a non-empty move; as alphabet the input's
\* without 'ε' and ''; the start state and every endpoint are among its states.
C18_SubsetConstruction ==
    (pc = "converted" /\ ~ isDFA(given)) =>
        LET d == Value(out)
        IN  /\ d.startState = RefLabel(RefClosure(given, {given.startState}))
            /\ Range(d.states) = {RefLabel(S) : S \in RefReachable(given)}
            /\ Range(d.transitions) =
                  {[from |-> RefLabel(SY[1]), to |-> RefLabel(RefStep(given, SY[1], SY[2])),
                    symbol |-> SY[2]] :
                      SY \in {sy \in RefReachable(given) \X RefSymbols(given) :
                                 RefMoveOn(given, sy[1], sy[2]) # {}}}
            /\ \A i, j \in 1..Len(d.transitions) :
                  (d.transitions[i].from = d.transitions[j].from
                     /\ d.transitions[i].symbol = d.transitions[j].symbol) => i = j
            /\ d.alphabet = SelectSeq(given.alphabet, LAMBDA y : y \notin {EPSILON, EMPTY})
            /\ d.startState \in Range(d.states)
            /\ \A t \in Range(d.transitions) :
                  t.from \in Range(d.states) /\ t.to \in Range(d.states)

\* C19: in the conversion of an input classified NFA, a state label is an
\* accept state exactly when the set it decodes to, the label split on commas,
\* holds an accept state of the input; for the start label and for every other.
C19_AcceptIffDecodedSetAccepts ==
    (pc = "converted" /\ ~ isDFA(given)) =>
        /\ Range(Value(out).acceptStates) \subseteq Range(Value(out).states)
        /\ \A label \in Range(Value(out).states) :
              label \in Range(Value(out).acceptStates)
                  <=> Range(SplitComma(label)) \cap Range(given.acceptStates) # {}

\* C20: whichever label is taken from the work-list at each turn, the loop
\* ends with the set of states, the set of transitions, the start state and the
\* set of accept states that the code's order (the last label first) gives.
C20_OrderOfWorkList ==
    pc = "converted" =>
        /\ Range(subset.dfaStates) = Range(Value(out).states)
        /\ Range(subset.dfaTransitions) = Range(Value(out).transitions)
        /\ subset.dfaStates[1] = Value(out).startState
        /\ Range(subset.dfaAcceptStates) = Range(Value(out).acceptStates)

RefNoDuplicate(arr) == \A i, j \in 1..Len(arr) : arr[i] = arr[j] => i = j

\* what is left to do: the labels on the work-list, and twice the labels that
\* can still be discovered
RefLoopRank(a, st) == Len(st.workList) + 2 * (2 ^ Len(a.states) - Len(st.dfaStates))

\* C21: the epsilon-closure loop ends (after at most one pass per state and
\* one more) and the work-list loop ends (every turn lowers a count that is
\* never negative); a label is put on the work-list at most once (the work-list
\* never repeats a label, and a label discovered before is not put on it
\* again); the discovered labels are at most 2^|states|.
C21_LoopsTerminate ==
    /\ [](pc = "looping" =>
            /\ RefNoDuplicate(subset.workList)
            /\ RefNoDuplicate(subset.dfaStates)
            /\ Range(subset.workList) \subseteq Range(subset.dfaStates)
            /\ Len(subset.dfaStates) <= 2 ^ Len(given.states)
            /\ \A S \in SUBSET RefStates(given) :
                  SimClosurePasses(given.transitions, SeqOfSet(S)) <= Len(given.states) + 1)
    /\ [][(pc = "looping" /\ pc' = "looping") =>
            /\ RefLoopRank(given, subset') < RefLoopRank(given, subset)
            /\ \A k \in 1..Len(subset'.workList) :
                  \/ subset'.workList[k] \in Range(subset.workList)
                  \/ subset'.workList[k] \notin Range(subset.dfaStates)]_vars

C21_Witness ==
    /\ pc = "converted"
    /\ Len(subset.dfaStates) = 2 /\ Len(subset.dfaTransitions) = 2
    /\ \E S \in SUBSET RefStates(given) :
          SimClosurePasses(given.transitions, SeqOfSet(S)) = 2

\* the states reached from S by at most k epsilon transitions
RECURSIVE RefEpsReach(_, _, _)
RefEpsReach(a, S, k) ==
    IF k = 0 THEN S
    ELSE LET R == RefEpsReach(a, S, k - 1)
         IN  R \cup {t.to : t \in {u \in RefTransitions(a) :
                                      u.from \in R /\ u.symbol \in {EPSILON, EMPTY}}}

\* C22: for a set S of states, the epsilon-closure holds S, holds the
\* destination of every epsilon transition that leaves one of its members,
\* holds only states reachable from S by epsilon transitions (it is the
\* smallest such set), and is its own closure; the closure of the simulator and
\* the closure of the converter are the same set.
C22_EpsilonClosure ==
    pc = "closed" =>
        LET S == Range(closures.states)
        IN  /\ S \subseteq Range(closures.sim)
            /\ RefEpsClosed(given, Range(closures.sim))
            /\ Range(closures.sim) \subseteq RefEpsReach(given, S, Len(given.states))
            /\ Range(closures.sim) = RefClosure(given, S)
            /\ Range(closures.simTwice) = Range(closures.sim)
            /\ Range(closures.convTwice) = Range(closures.conv)
            /\ Range(closures.conv) = Range(closures.sim)

C22_Witness ==
    /\ pc = "closed"
    /\ Len(closures.states) = 1 /\ Len(closures.conv) = 3
    /\ \E t \in RefTransitions(given) : t.symbol = EMPTY
    /\ \E t \in RefTransitions(given) : t.symbol = EPSILON

\* the pending transition of the form has its three fields and is in the list
RefPendingInList(f) ==
    /\ DOMAIN f.newTransition = {"from", "to", "symbol"}
    /\ Includes(f.transitions, [from |-> f.newTransition.from, to |-> f.newTransition.to,
                                symbol |-> f.newTransition.symbol])

\* C23: whatever the form operations done, the transition list of the form
\* never holds the same (from, symbol, to) twice, and addTransition with a
\* triple that is already in the list leaves the list as it is.
C23_NoDuplicateTransition ==
    /\ [](RefNoDuplicate(form.transitions))
    /\ [][(AddTransition /\ RefPendingInList(form)) =>
              form'.transitions = form.transitions]_vars

C23_Witness ==
    /\ RefPendingInList(form)
    /\ Len(form.transitions) = 2
    /\ form.transitions[2] = [from |-> form.newTransition.from, to |-> form.newTransition.to,
                              symbol |-> form.newTransition.symbol]

\* the form refers only to what it declares
RefIntegrity(f) ==
    /\ f.startState = <<>> \/ Includes(f.states, f.startState)
    /\ Range(f.acceptStates) \subseteq Range(f.states)
    /\ \A k \in 1..Len(f.transitions) :
          /\ Includes(f.states, f.transitions[k].from)
          /\ Includes(f.states, f.transitions[k].to)
          /\ f.transitions[k].symbol = EPSILON \/ Includes(f.alphabet, f.transitions[k].symbol)

\* C24: after any sequence of edit operations from the empty form, the start
\* state is '' or a declared state, the accept states are declared states, and
\* every listed transition joins declared states on 'ε' or a declared symbol.
C24_ReferentialIntegrity == pc = "editing" => RefIntegrity(form)

\* C25: on an automaton that the classifier calls a DFA, simulateDFA and
\* simulateNFA return the same accepted value for every input string.
C25_SameAcceptedEitherWay ==
    (pc = "simulatedEachWay" /\ kind = "DFA") => sim.accepted = simOut.accepted

C25_Witness ==
    /\ pc = "simulatedEachWay" /\ kind = "DFA"
    /\ sim.accepted /\ simOut.accepted
    /\ Len(input) >= 2 /\ Len(sim.path) = Len(input) + 1
    /\ sim.path[Len(sim.path)] # sim.path[1]

\* the same on a rejected input: both algorithms stop on a missing transition
C25_WitnessRejected ==
    /\ pc = "simulatedEachWay" /\ kind = "DFA"
    /\ ~ sim.accepted /\ ~ simOut.accepted
    /\ Len(input) >= 2 /\ Len(sim.path) = 2
    /\ \A i \in 1..Len(input) : Includes(given.alphabet, <<input[i]>>)

====
